---- MODULE Spec2Model ----
(***************************************************************************)
(* Model of the C++ core of the study assistant: the frequency-vector      *)
(* transform (transform.hpp), the document identity encoder and the        *)
(* metadata resolver (updateDB.hpp), and the SQLite-backed operations of    *)
(* feature.hpp (computeRelationalDistance, computeResourceData,            *)
(* processPrompt).                                                         *)
(*                                                                         *)
(* Conventions.                                                            *)
(*  - A std::string is a sequence of byte codes (97 = 'a').                *)
(*  - A std::map<std::string,int> is a function whose DOMAIN is its key     *)
(*    set; iteration order is ascending key order (StrLess).               *)
(*  - A double that is a square root is kept exactly: Sqrt(n) is the       *)
(*    record [sq |-> n] standing for the real number whose square is n.    *)
(*    A quotient freq / norm is the record [num |-> freq, den |-> norm].   *)
(*  - A SQLite table is [exists |-> BOOLEAN, rows |-> set of records];     *)
(*    the variables hold the COMMITTED content of the database file.       *)
(***************************************************************************)
EXTENDS Integers, Sequences, FiniteSets, TLC

(***************************************************************************)
(* Bounds of the model                                                     *)
(***************************************************************************)
\* largest token count appearing in a frequency map of the model
MaxFreq == 4
\* largest top_n handed to processPrompt
MaxTopN == 3

(***************************************************************************)
(* Program constants                                                       *)
(***************************************************************************)
\* ENV_HPP::max_length
max_length == 14
\* ENV_HPP::min_value
min_value == 3
\* thresholds processPrompt passes to token_filter
prompt_max_length == 16
prompt_min_value == 1

(***************************************************************************)
(* Strings                                                                 *)
(***************************************************************************)
\* lexicographic order of std::string (the order of std::map keys)
StrLess(a, b) ==
    \E i \in 1..Len(b) :
        /\ \A j \in 1..(i - 1) : j <= Len(a) /\ a[j] = b[j]
        /\ (i > Len(a) \/ a[i] < b[i])

RECURSIVE SortedKeys(_)
\* the keys of a std::map in iteration order
SortedKeys(S) ==
    IF S = {} THEN <<>>
    ELSE LET k == CHOOSE x \in S : \A y \in S \ {x} : StrLess(x, y)
         IN  <<k>> \o SortedKeys(S \ {k})

RECURSIVE SumSeq(_)
SumSeq(s) == IF s = <<>> THEN 0 ELSE Head(s) + SumSeq(Tail(s))

RECURSIVE SumOver(_, _)
\* sum of f[k] over the keys k of S
SumOver(f, S) ==
    IF S = {} THEN 0
    ELSE LET k == CHOOSE x \in S : TRUE IN f[k] + SumOver(f, S \ {k})

(***************************************************************************)
(* Real numbers that occur in the program                                  *)
(***************************************************************************)
\* std::sqrt(n) for an exact non-negative n
Sqrt(n) == [sq |-> n]

RECURSIVE ISqrtBetween(_, _, _)
\* the largest k in lo..hi with k * k <= n
ISqrtBetween(n, lo, hi) ==
    IF lo >= hi THEN lo
    ELSE LET mid == (lo + hi + 1) \div 2
         IN  IF mid * mid <= n THEN ISqrtBetween(n, mid, hi)
             ELSE ISqrtBetween(n, lo, mid - 1)
\* conversion double -> int of the square root of n >= 0: truncation toward
\* zero (46340 is the largest int whose square is an int)
TruncToInt(r) == ISqrtBetween(r.sq, 0, 46340)
\* conversion int -> double
IntToDouble(k) == Sqrt(k * k)
\* static_cast<double>(f) / norm
Quot(f, norm) == [num |-> f, den |-> norm]
\* equality of two quotients as real numbers (f >= 0); a zero denominator
\* makes the quotient Infinity or NaN and a NaN denominator makes it NaN,
\* equal to no finite value
IsFinite(w) == w.den.sq > 0
WeightEq(v, w) ==
    /\ IsFinite(v) /\ IsFinite(w)
    /\ v.num * v.num * w.den.sq = w.num * w.num * v.den.sq

(***************************************************************************)
(* transform.hpp                                                           *)
(***************************************************************************)
\* TRANSFORMER::compute_sum_token_json
compute_sum_token_json(tokens) == SumOver(tokens, DOMAIN tokens)

\* TRANSFORMER::count_unique_tokens
count_unique_tokens(tokens) == Cardinality(DOMAIN tokens)

\* the lambda of std::all_of: c >= 'a' && c <= 'z'
IsLowerAlpha(c) == c >= 97 /\ c <= 122
contains_only_letters(key) == \A i \in 1..Len(key) : IsLowerAlpha(key[i])

\* the test of one entry in token_filter
PassesFilter(key, value, maxLen, minVal) ==
    /\ contains_only_letters(key)
    /\ Len(key) <= maxLen
    /\ value >= minVal

RECURSIVE FilterSeq(_, _, _, _, _)
FilterSeq(keys, tokens, maxLen, minVal, relational_distance) ==
    IF keys = <<>> THEN <<>>
    ELSE LET k == Head(keys)
             rest == FilterSeq(Tail(keys), tokens, maxLen, minVal, relational_distance)
         IN  IF PassesFilter(k, tokens[k], maxLen, minVal)
             THEN <<[token |-> k, frequency |-> tokens[k],
                     weight |-> Quot(tokens[k], relational_distance)]>> \o rest
             ELSE rest

\* TRANSFORMER::token_filter: the vector of (token, frequency, weight)
token_filter(tokens, maxLen, minVal, relational_distance) ==
    FilterSeq(SortedKeys(DOMAIN tokens), tokens, maxLen, minVal, relational_distance)

(***************************************************************************)
(* Fixed-width unsigned integers: little-endian sequences of bytes          *)
(* (uint64_t = 8 bytes, uint32_t and the bits of int = 4 bytes)             *)
(***************************************************************************)
Max(a, b) == IF a >= b THEN a ELSE b
Min(a, b) == IF a <= b THEN a ELSE b

RECURSIVE NatToBytes(_, _)
\* the n low bytes of a natural number
NatToBytes(x, n) ==
    IF n = 0 THEN <<>> ELSE <<x % 256>> \o NatToBytes(x \div 256, n - 1)

\* conversion of an int to an n-byte unsigned integer (n >= 4): two's
\* complement with sign extension
IntToU(x, n) ==
    IF x >= 0 THEN NatToBytes(x, n)
    ELSE LET y == (x + 2147483647) + 1
             low == NatToBytes(y, 4)
         IN  [i \in 1..n |-> IF i < 4 THEN low[i]
                             ELSE IF i = 4 THEN low[4] + 128 ELSE 255]

\* the sum of the products a[i] * b[j] that land on byte k
ColumnSum(a, b, k) ==
    SumSeq([i \in 1..k |-> a[i] * b[k + 1 - i]])

RECURSIVE MulFrom(_, _, _, _, _)
MulFrom(a, b, k, carry, n) ==
    IF k > n THEN <<>>
    ELSE LET s == ColumnSum(a, b, k) + carry
         IN  <<s % 256>> \o MulFrom(a, b, k + 1, s \div 256, n)

\* product of two n-byte unsigned integers, truncated to n bytes (wraps)
MulU(a, b, n) == MulFrom(a, b, 1, 0, n)

RECURSIVE XorByte(_, _)
XorByte(a, b) ==
    IF a = 0 /\ b = 0 THEN 0
    ELSE (((a % 2) + (b % 2)) % 2) + 2 * XorByte(a \div 2, b \div 2)

\* static_cast<uint32_t>(u64 ^ u32): the low four bytes of the exclusive or
XorLow32(u64, u32) == [i \in 1..4 |-> XorByte(u64[i], u32[i])]

\* the hexadecimal digits of an unsigned integer, most significant first
Nibbles(u) ==
    [i \in 1..(2 * Len(u)) |->
        LET byte == u[Len(u) - ((i - 1) \div 2)]
        IN  IF i % 2 = 1 THEN byte \div 16 ELSE byte % 16]

\* the character std::hex prints for one digit (lowercase)
HexChar(d) == IF d < 10 THEN 48 + d ELSE 87 + d

RECURSIVE StripZeros(_)
StripZeros(ds) ==
    IF Len(ds) > 1 /\ Head(ds) = 0 THEN StripZeros(Tail(ds)) ELSE ds

\* operator<< of an unsigned integer under std::hex, field width 0
Hex(u) == LET ds == StripZeros(Nibbles(u)) IN [i \in 1..Len(ds) |-> HexChar(ds[i])]

\* operator<< of a uint32_t under std::hex, std::setw(8), std::setfill('0')
HexPad8(u) == LET ds == Nibbles(u) IN [i \in 1..Len(ds) |-> HexChar(ds[i])]

(***************************************************************************)
(* transform.hpp: the norm                                                 *)
(***************************************************************************)
\* the int a 4-byte two's complement pattern stands for
ToSigned(b) ==
    b[1] + 256 * b[2] + 65536 * b[3]
        + 16777216 * (IF b[4] >= 128 THEN b[4] - 256 ELSE b[4])

\* value * value on int (line 72).  From 46341 on the product does not fit
\* an int; the multiplication instruction the compilers emit keeps its low
\* 32 bits (g++ at -O0, -O2 and -O3 agree), read back as a signed int.
IntSquare(value) ==
    IF value < 46341 /\ value > 0 - 46341 THEN value * value
    ELSE ToSigned(MulU(IntToU(value, 4), IntToU(value, 4), 4))

\* TRANSFORMER::Pythagoras.  The square root of a negative sum is NaN,
\* kept as Sqrt of that negative number.
Pythagoras(tokens) ==
    Sqrt(SumOver([k \in DOMAIN tokens |-> IntSquare(tokens[k])], DOMAIN tokens))

(***************************************************************************)
(* updateDB.hpp: the document identity encoder                             *)
(***************************************************************************)
\* the % of C++ on int: the remainder has the sign of the dividend
Rem(a, b) == IF a >= 0 THEN a % b ELSE 0 - ((0 - a) % b)

\* std::filesystem::path::generic_string() of the Windows build the
\* configured resource path (D:\READING LIST) belongs to: '\' becomes '/'
generic_string(path) == [i \in 1..Len(path) |-> IF path[i] = 92 THEN 47 ELSE path[i]]

\* the encoder with the remainder of line 101 taken as a non-negative residue
IdWithResidue(path, epoch_time, chunk_count, starting_id) ==
    LET byte_sum == NatToBytes(SumSeq(generic_string(path)), 8)
        scaled == MulU(byte_sum, IntToU(Max(1, chunk_count), 8), 8)
        encoded_file_name == MulU(scaled, IntToU(epoch_time, 8), 8)
        mod_starting_id == IF starting_id = 0 THEN epoch_time % 3600 ELSE starting_id
        shifted == MulU(IntToU(chunk_count + 1, 4), IntToU(2, 4), 4)
        encoded_starting_id == MulU(IntToU(mod_starting_id, 4), shifted, 4)
        redundancy == XorLow32(encoded_file_name, encoded_starting_id)
    IN  Hex(encoded_file_name) \o HexPad8(encoded_starting_id) \o HexPad8(redundancy)

\* UPDATE_INFO::create_unique_id.  The int product of line 102 is taken in
\* two's complement, the only result the subsequent cast to uint32_t keeps.
create_unique_id(path, epoch_time, chunk_count, starting_id) ==
    LET byte_sum == NatToBytes(SumSeq(generic_string(path)), 8)
        scaled == MulU(byte_sum, IntToU(Max(1, chunk_count), 8), 8)
        encoded_file_name == MulU(scaled, IntToU(epoch_time, 8), 8)
        mod_starting_id ==
            IF starting_id = 0 THEN Rem(epoch_time, 3600) ELSE starting_id
        shifted == MulU(IntToU(chunk_count + 1, 4), IntToU(2, 4), 4)
        encoded_starting_id == MulU(IntToU(mod_starting_id, 4), shifted, 4)
        redundancy == XorLow32(encoded_file_name, encoded_starting_id)
    IN  Hex(encoded_file_name) \o HexPad8(encoded_starting_id) \o HexPad8(redundancy)

(***************************************************************************)
(* Paths                                                                   *)
(***************************************************************************)
\* the largest index of byte c in s, 0 when s has no c
LastIndexOf(s, c) ==
    LET hits == {i \in 1..Len(s) : s[i] = c}
    IN  IF hits = {} THEN 0 ELSE CHOOSE i \in hits : \A j \in hits : j <= i

\* std::filesystem::path::stem(): the file name without its last extension
Stem(path) ==
    LET cut == Max(LastIndexOf(path, 47), LastIndexOf(path, 92))
        name == SubSeq(path, cut + 1, Len(path))
        dot == LastIndexOf(name, 46)
    IN  IF dot <= 1 THEN name ELSE SubSeq(name, 1, dot - 1)

\* UTILITIES_HPP::Basic::convertToBackslash
convertToBackslash(path) == [i \in 1..Len(path) |-> IF path[i] = 47 THEN 92 ELSE path[i]]

(***************************************************************************)
(* The world of the model: two PDF files, their chunk rows, and the        *)
(* frequency-map files the tokenizer writes for them                       *)
(***************************************************************************)
\* "D:\a.pdf" and "D:\b.pdf", as the directory scan of a Windows build lists them
PdfA == <<68, 58, 92, 97, 46, 112, 100, 102>>
PdfB == <<68, 58, 92, 98, 46, 112, 100, 102>>
PdfFiles == {PdfA, PdfB}

\* tokens: "ab", "cd" (kept by the filter), "cd2" (not lowercase-alphabetic)
TokAB == <<97, 98>>
TokCD == <<99, 100>>
TokCD2 == <<99, 100, 50>>

EmptyMap == <<>>
\* frequency maps a document file can hold
DocMaps ==
    { EmptyMap,
      (TokAB :> min_value) @@ (TokCD2 :> MaxFreq),
      (TokAB :> min_value) @@ (TokCD :> MaxFreq),
      (TokAB :> (min_value - 1)) @@ (TokCD :> min_value) }
\* frequency maps the prompt buffer can hold
PromptMaps ==
    { EmptyMap,
      (TokAB :> 1),
      (TokAB :> MaxFreq) @@ (TokCD :> 1),
      (TokCD :> 2) @@ (TokCD2 :> 1) }

\* what opening and parsing a JSON file yields: a map, or a failure
\* (the file cannot be opened, or nlohmann::json throws on its content)
Readable(m) == [ok |-> TRUE, map |-> m]
Unreadable == [ok |-> FALSE, map |-> EmptyMap]
DocContents == {Readable(m) : m \in DocMaps} \cup {Unreadable}
PromptContents == {Readable(m) : m \in PromptMaps} \cup {Unreadable}

(***************************************************************************)
(* SQLite tables                                                           *)
(***************************************************************************)
\* a table that was never created
NoTable == [exists |-> FALSE, rows |-> {}]
\* CREATE TABLE after DROP TABLE IF EXISTS
NewTable == [exists |-> TRUE, rows |-> {}]
\* file_info keeps its rows in rowid order, the order a SELECT without
\* ORDER BY walks them
NoSeqTable == [exists |-> FALSE, rows |-> <<>>]
NewSeqTable == [exists |-> TRUE, rows |-> <<>>]

\* sqlite3_step of INSERT OR REPLACE INTO file_token (primary key file_name).
\* ok: the write lock is available; the statement was prepared only if the
\* table exists.  Otherwise the step fails and the table is left alone.
InsertOrReplaceFileToken(t, row, ok) ==
    IF ok /\ t.exists
    THEN [t EXCEPT !.rows = {r \in @ : r.file_name # row.file_name} \cup {row}]
    ELSE t

\* sqlite3_step of INSERT OR REPLACE INTO relation_distance (primary key
\* file_name, Token)
InsertOrReplaceRelation(t, row, ok) ==
    IF ok /\ t.exists
    THEN [t EXCEPT !.rows =
            {r \in @ : ~(r.file_name = row.file_name /\ r.Token = row.Token)}
            \cup {row}]
    ELSE t

RECURSIVE SeqWithout(_, _)
\* the rows of a sequence whose id differs from id
SeqWithout(rows, id) ==
    IF rows = <<>> THEN <<>>
    ELSE IF Head(rows).id = id THEN SeqWithout(Tail(rows), id)
         ELSE <<Head(rows)>> \o SeqWithout(Tail(rows), id)

\* a plain INSERT that keeps the conflicting row
InsertKeepingOld(t, row, ok) ==
    IF ok /\ t.exists THEN [t EXCEPT !.rows = Append(@, row)] ELSE t

\* INSERT OR IGNORE: on a conflict the row already there stays
InsertOrIgnoreInfo(t, row, ok) ==
    IF ok /\ t.exists /\ \A i \in 1..Len(t.rows) : t.rows[i].id # row.id
    THEN [t EXCEPT !.rows = Append(@, row)]
    ELSE t

\* INSERT OR REPLACE INTO file_info: the conflicting row is deleted and the
\* new row gets a fresh, larger rowid
InsertOrReplaceInfo(t, row, ok) ==
    IF ok /\ t.exists
    THEN [t EXCEPT !.rows = Append(SeqWithout(@, row.id), row)]
    ELSE t

\* The journal of a call: what its connection did, in order.  "open" and
\* "close" are sqlite3_open and sqlite3_close; "drop", "create" and "insert"
\* are the statements that changed the database file; "begin" and "commit"
\* are BEGIN TRANSACTION and COMMIT TRANSACTION.  Statements that failed and
\* the PRAGMAs are not recorded.
Repeat(event, n) == [i \in 1..n |-> event]

(***************************************************************************)
(* State                                                                   *)
(***************************************************************************)
VARIABLES
    file_token,         \* table file_token (key file_name)
    relation_distance,  \* table relation_distance (key file_name, Token)
    file_info,          \* table file_info (key id), rows in rowid order
    pdf_chunks,         \* table pdf_chunks, owned by the text extractor
    mtime,              \* last write time of each PDF file
    global_terms,       \* table global_terms (key term)
    lock,               \* "free", or "leaked": a connection that was never
                        \* closed holds the write lock with an open transaction
    last                \* the call that has just returned to main, with its
                        \* arguments and its result; NoCall between two calls

vars ==
    <<file_token, relation_distance, file_info, pdf_chunks, mtime, global_terms,
      lock, last>>

\* the chunk rows and the modification times the program starts with
InitChunks ==
    [exists |-> TRUE,
     rows |-> {[file_name |-> PdfA, id |-> 5, chunk_index |-> 0],
               [file_name |-> PdfA, id |-> 6, chunk_index |-> 1]}]
InitMtime ==
    (PdfA :> [ok |-> TRUE, time |-> 1700000000]) @@
    (PdfB :> [ok |-> TRUE, time |-> 1700000123])

(***************************************************************************)
(* updateDB.hpp: the metadata resolver                                     *)
(***************************************************************************)
\* UPDATE_INFO::get_epoch_time: -1 when last_write_time throws
get_epoch_time(mt, path) == IF mt[path].ok THEN mt[path].time ELSE 0 - 1

ChunkIds(chunks, file_name) ==
    IF chunks.exists THEN {r.id : r \in {x \in chunks.rows : x.file_name = file_name}}
    ELSE {}

\* UPDATE_INFO::count_chunk_for_each_title: SELECT COUNT(chunk_index)
count_chunk_for_each_title(chunks, file_name) ==
    IF chunks.exists
    THEN Cardinality({r \in chunks.rows : r.file_name = file_name})
    ELSE 0

\* UPDATE_INFO::get_starting_id: SELECT MIN(id), NULL read as 0
get_starting_id(chunks, file_name) ==
    LET ids == ChunkIds(chunks, file_name)
    IN  IF ids = {} THEN 0 ELSE CHOOSE i \in ids : \A j \in ids : i <= j

\* SELECT MAX(id) without the WHERE clause
EndingIdOfTable(chunks, file_name) ==
    LET ids == IF chunks.exists THEN {r.id : r \in chunks.rows} ELSE {}
    IN  IF ids = {} THEN 0 ELSE CHOOSE i \in ids : \A j \in ids : i >= j

\* UPDATE_INFO::get_ending_id: SELECT MAX(id), NULL read as 0
get_ending_id(chunks, file_name) ==
    LET ids == ChunkIds(chunks, file_name)
    IN  IF ids = {} THEN 0 ELSE CHOOSE i \in ids : \A j \in ids : i >= j

\* the DataInfo computeResourceData builds for one file (lines 246-255)
DataInfoOf(chunks, mt, file) ==
    LET file_path == convertToBackslash(generic_string(file))
        epoch_time == get_epoch_time(mt, file)
        chunk_count == count_chunk_for_each_title(chunks, file_path)
        starting_id == get_starting_id(chunks, file_path)
        ending_id == get_ending_id(chunks, file_path)
    IN  [id |-> create_unique_id(file_path, epoch_time, chunk_count, starting_id),
         file_name |-> Stem(file),
         file_path |-> file_path,
         epoch_time |-> epoch_time,
         chunk_count |-> chunk_count,
         starting_id |-> starting_id,
         ending_id |-> ending_id]

(***************************************************************************)
(* The frequency-map files.  The tokenizer (not part of the C++ core)      *)
(* writes one file per document and names it "title_" + id + ".json".      *)
(***************************************************************************)
TitlePrefix == <<116, 105, 116, 108, 101, 95>>
JsonSuffix == <<46, 106, 115, 111, 110>>
JsonFileOf(pdf) ==
    TitlePrefix \o DataInfoOf(InitChunks, InitMtime, pdf).id \o JsonSuffix
JsonA == JsonFileOf(PdfA)
JsonB == JsonFileOf(PdfB)
JsonFiles == {JsonA, JsonB}

\* the vectors a caller can pass: the files of a directory listing, or some
\* of them, in the order of the listing
SubLists(listing) ==
    {<<>>, listing} \cup {<<listing[i]>> : i \in 1..Len(listing)}
JsonListing == <<JsonA, JsonB>>
PdfListing == <<PdfA, PdfB>>

(***************************************************************************)
(* feature.hpp: computeRelationalDistance                                  *)
(***************************************************************************)
\* the in-place erase loop of lines 102-112
EraseInvalid(json_map) ==
    LET kept == {k \in DOMAIN json_map :
                    ~(\/ json_map[k] < min_value
                      \/ Len(k) > max_length
                      \/ ~contains_only_letters(k))}
    IN  [k \in kept |-> json_map[k]]

\* the DataEntry of lines 114-123, built from the map left by the erase loop
DataEntryOf(file, parsed) ==
    LET json_map == EraseInvalid(parsed)
        relational_distance == Pythagoras(json_map)
    IN  [path |-> Stem(file),
         sum |-> compute_sum_token_json(json_map),
         num_unique_tokens |-> count_unique_tokens(json_map),
         relational_distance |-> relational_distance,
         filtered_tokens |-> token_filter(json_map, max_length, min_value,
                                          relational_distance)]

RECURSIVE InsertTokens(_, _, _, _)
\* the loop of lines 148-155
InsertTokens(t, path, filtered_tokens, ok) ==
    IF filtered_tokens = <<>> THEN t
    ELSE LET tk == Head(filtered_tokens)
             row == [file_name |-> path, Token |-> tk.token,
                     frequency |-> tk.frequency, relational_distance |-> tk.weight]
         IN  InsertTokens(InsertOrReplaceRelation(t, row, ok), path,
                          Tail(filtered_tokens), ok)

\* lines 128-156: the two INSERT OR REPLACE statements of one document;
\* the results of prepare and step are not looked at
InsertEntry(work, row, ok) ==
    [file_token |->
        InsertOrReplaceFileToken(work.file_token,
                        [file_name |-> row.path, total_tokens |-> row.sum,
                         unique_tokens |-> row.num_unique_tokens,
                         relational_distance |-> row.relational_distance],
                        ok),
     relation_distance |->
        InsertTokens(work.relation_distance, row.path, row.filtered_tokens, ok)]

\* does the document's pair of inserts write to the database file
EntryWrites(work, row, ok) ==
    ok /\ (work.file_token.exists
           \/ (work.relation_distance.exists /\ row.filtered_tokens # <<>>))

\* the steps of the document's inserts that succeed (lines 128-156)
EntryInserts(work, row, ok) ==
    Repeat("insert", IF ok /\ work.file_token.exists THEN 1 ELSE 0)
    \o Repeat("insert", IF ok /\ work.relation_distance.exists
                         THEN Len(row.filtered_tokens) ELSE 0)

RECURSIVE IngestLoop(_, _, _, _, _, _, _)
\* the for loop of lines 94-161 from file i on.  json_to_map throws on an
\* unreadable file and the loop is left through the catch of line 172.
IngestLoop(files, content, i, work, wrote, ok, journal) ==
    IF i > Len(files)
    THEN [threw |-> FALSE, work |-> work, wrote |-> wrote, journal |-> journal]
    ELSE IF ~content[files[i]].ok
    THEN [threw |-> TRUE, work |-> work, wrote |-> wrote, journal |-> journal]
    ELSE LET row == DataEntryOf(files[i], content[files[i]].map)
         IN  IngestLoop(files, content, i + 1, InsertEntry(work, row, ok),
                        wrote \/ EntryWrites(work, row, ok), ok,
                        journal \o EntryInserts(work, row, ok))

\* FEATURE::computeRelationalDistance on the committed tables ft, rd under
\* lock state lk: the committed tables, the lock state and the outcome
\* ("finished": line 171 was reached, "error": the catch of line 172 ran)
RunRelationalDistance(ft, rd, lk, files, content, reset_table) ==
    LET ok == lk = "free"
        before == [file_token |-> ft, relation_distance |-> rd]
        \* lines 64-88 run in autocommit mode, before BEGIN TRANSACTION
        base == IF reset_table
                THEN [file_token |-> NewTable, relation_distance |-> NewTable]
                ELSE before
        \* lines 51-91: sqlite3_open, the two scripts of lines 64-88, BEGIN
        opening == <<"open">>
                   \o (IF reset_table THEN <<"drop", "create", "drop", "create">>
                       ELSE <<>>)
                   \o <<"begin">>
        run == IngestLoop(files, content, 1, base, FALSE, ok, opening)
    IN  IF reset_table /\ ~ok
        THEN \* DROP TABLE fails with SQLITE_BUSY and execute_sql throws
             [tables |-> before, lock |-> lk, outcome |-> "error",
              journal |-> <<"open">>]
        ELSE IF run.threw
        THEN \* the transaction is neither committed nor rolled back and
             \* the connection is never closed
             [tables |-> base,
              lock |-> IF run.wrote THEN "leaked" ELSE lk,
              outcome |-> "error",
              journal |-> run.journal]
        ELSE \* lines 164-170: COMMIT, sqlite3_close
             [tables |-> run.work, lock |-> lk, outcome |-> "finished",
              journal |-> run.journal \o <<"commit", "close">>]

(***************************************************************************)
(* feature.hpp: computeResourceData                                        *)
(***************************************************************************)
RECURSIVE InfoLoop(_, _, _, _, _, _)
\* the for loop of lines 239-280: a failed step is logged and the loop goes on
InfoLoop(files, chunks, mt, i, work, ok) ==
    IF i > Len(files) THEN work
    ELSE InfoLoop(files, chunks, mt, i + 1,
                  InsertOrReplaceInfo(work, DataInfoOf(chunks, mt, files[i]), ok), ok)

RECURSIVE EntriesFrom(_, _, _, _)
\* the DataInfo entries the loop builds from file i on, in the order
\* data_info_dump writes them (line 261)
EntriesFrom(files, chunks, mt, i) ==
    IF i > Len(files) THEN <<>>
    ELSE <<DataInfoOf(chunks, mt, files[i])>> \o EntriesFrom(files, chunks, mt, i + 1)

\* the journal of a computeResourceData call that reaches line 292:
\* sqlite3_open, the script of lines 211-226, BEGIN, one step per file,
\* COMMIT, sqlite3_close
InfoJournal(base, files, reset_table, ok) ==
    <<"open">>
    \o (IF reset_table THEN <<"drop", "create">> ELSE <<>>)
    \o <<"begin">>
    \o Repeat("insert", IF ok /\ base.exists THEN Len(files) ELSE 0)
    \o <<"commit", "close">>

\* a batch that gives up when a modification time cannot be read
RunResourceDataAborting(fi, chunks, mt, lk, files, reset_table) ==
    LET ok == lk = "free"
        base == IF reset_table THEN NewSeqTable ELSE fi
    IN  IF (reset_table /\ ~ok) \/ \E i \in 1..Len(files) : ~mt[files[i]].ok
        THEN [table |-> fi, entries |-> <<>>, outcome |-> "error",
              journal |-> <<"open">>]
        ELSE [table |-> InfoLoop(files, chunks, mt, 1, base, ok),
              entries |-> EntriesFrom(files, chunks, mt, 1),
              outcome |-> "finished",
              journal |-> InfoJournal(base, files, reset_table, ok)]

\* FEATURE::computeResourceData on the committed table fi
RunResourceData(fi, chunks, mt, lk, files, reset_table) ==
    LET ok == lk = "free"
        base == IF reset_table THEN NewSeqTable ELSE fi
    IN  IF reset_table /\ ~ok
        THEN \* DROP TABLE fails with SQLITE_BUSY, execute_sql throws and the
             \* catch of line 295 leaves the connection open
             [table |-> fi, entries |-> <<>>, outcome |-> "error",
              journal |-> <<"open">>]
        ELSE [table |-> InfoLoop(files, chunks, mt, 1, base, ok),
              entries |-> EntriesFrom(files, chunks, mt, 1),
              outcome |-> "finished",
              journal |-> InfoJournal(base, files, reset_table, ok)]

(***************************************************************************)
(* feature.hpp: processPrompt                                              *)
(***************************************************************************)
\* A sum of products of weights: the function that maps the square of each
\* denominator to the sum of the numerators over it.  ZeroSum is 0.0.
ZeroSum == <<>>
\* total += a * b, for the quotients a = a.num / sqrt(a.den.sq) and b
AddProduct(total, a, b) ==
    LET d == a.den.sq * b.den.sq
        n == a.num * b.num
    IN  IF d \in DOMAIN total THEN [total EXCEPT ![d] = @ + n]
        ELSE (d :> n) @@ total

\* x > y for sums of at most one term each (numerators are positive)
SumDen(x) == CHOOSE d \in DOMAIN x : TRUE
SumGreater(x, y) ==
    IF DOMAIN x = {} THEN FALSE
    ELSE IF DOMAIN y = {} THEN TRUE
    ELSE x[SumDen(x)] * x[SumDen(x)] * SumDen(y) > y[SumDen(y)] * y[SumDen(y)] * SumDen(x)

\* a lookup by the bare id
LookupBareId(id) == id

\* the key processPrompt looks a document up by (lines 390-391)
LookupKey(id) == TitlePrefix \o id

\* lines 342-368: the rows of relation_distance whose Token is one of the
\* filtered prompt tokens, as file_name -> token -> weight
FetchedWeights(rd, filtered_tokens) ==
    LET wanted == {filtered_tokens[i].token : i \in 1..Len(filtered_tokens)}
    IN  {r \in rd.rows : r.Token \in wanted}

\* a score that stops at the first query token a document has a weight for
FirstHitOnly(fetched, id, filtered_tokens) ==
    LET hits == {k \in 1..Len(filtered_tokens) :
                    \E r \in fetched : r.file_name = TitlePrefix \o id
                                        /\ r.Token = filtered_tokens[k].token}
    IN  IF hits = {} THEN <<>>
        ELSE LET k == CHOOSE h \in hits : \A g \in hits : h <= g
                 r == CHOOSE x \in fetched : x.file_name = TitlePrefix \o id
                                              /\ x.Token = filtered_tokens[k].token
             IN  ((filtered_tokens[k].weight.den.sq * r.relational_distance.den.sq)
                     :> (filtered_tokens[k].weight.num * r.relational_distance.num))

RECURSIVE TotalDistance(_, _, _)
\* the loop of lines 385-393 for one file_info row
TotalDistance(fetched, id, filtered_tokens) ==
    IF filtered_tokens = <<>> THEN ZeroSum
    ELSE LET n == Len(filtered_tokens)
             entry == filtered_tokens[n]
             before == TotalDistance(fetched, id, SubSeq(filtered_tokens, 1, n - 1))
             hit == {r \in fetched : r.file_name = LookupKey(id) /\ r.Token = entry.token}
         IN  IF hit = {} THEN before
             ELSE AddProduct(before, entry.weight,
                             (CHOOSE r \in hit : TRUE).relational_distance)

RECURSIVE MatchesFrom(_, _, _, _)
\* the entries of the rows from the i-th on that have a weight for the query
MatchesFrom(fi, fetched, filtered_tokens, i) ==
    IF i > Len(fi.rows) THEN <<>>
    ELSE LET total == TotalDistance(fetched, fi.rows[i].id, filtered_tokens)
             rest == MatchesFrom(fi, fetched, filtered_tokens, i + 1)
         IN  IF total = ZeroSum THEN rest
             ELSE <<[id |-> fi.rows[i].id, file_name |-> fi.rows[i].file_name,
                     total_distance |-> total]>> \o rest

\* a result built like an inner join: documents without a match are left out
BuildResultOfMatches(fi, fetched, filtered_tokens) ==
    MatchesFrom(fi, fetched, filtered_tokens, 1)

\* lines 372-397: RESULT in the order the rows of file_info are read
BuildResult(fi, fetched, filtered_tokens) ==
    [i \in 1..Len(fi.rows) |->
        [id |-> fi.rows[i].id, file_name |-> fi.rows[i].file_name,
         total_distance |-> TotalDistance(fetched, fi.rows[i].id, filtered_tokens)]]

\* lines 311-314: the weighted tokens of the prompt; the norm is stored in an int
PromptTokens(tokens) ==
    LET distance == TruncToInt(Pythagoras(tokens))
    IN  token_filter(tokens, prompt_max_length, prompt_min_value, IntToDouble(distance))

\* RESULT before the sort, and how the call went up to there: "error" when
\* json_to_map throws, "returned" when a prepare fails (lines 336, 355)
RunPrompt(fi, rd, prompt) ==
    IF ~prompt.ok
    THEN \* line 312 throws before sqlite3_open
         [outcome |-> "error", RESULT |-> <<>>, journal |-> <<>>]
    ELSE IF ~fi.exists \/ ~rd.exists
    THEN [outcome |-> "returned", RESULT |-> <<>>, journal |-> <<"open", "close">>]
    ELSE LET filtered_tokens == PromptTokens(prompt.map)
         IN  [outcome |-> "finished",
              RESULT |-> BuildResult(fi, FetchedWeights(rd, filtered_tokens),
                                     filtered_tokens),
              journal |-> <<"open", "close">>]

\* injective maps of 1..n onto itself
Perms(n) == {p \in [1..n -> 1..n] : \A i, j \in 1..n : p[i] = p[j] => i = j}

\* what std::sort with the comparator of line 405 may leave in RESULT: any
\* arrangement in which no element is followed by one of greater distance
SortOutcomes(RESULT) ==
    {[i \in 1..Len(RESULT) |-> RESULT[p[i]]] :
        p \in {q \in Perms(Len(RESULT)) :
                 \A i, j \in 1..Len(RESULT) :
                    i < j => ~SumGreater(RESULT[q[j]].total_distance,
                                         RESULT[q[i]].total_distance)}}

\* a loop that stops one entry before the end of the list
PrintedButLast(sorted, top_n) == SubSeq(sorted, 1, Min(top_n, Len(sorted) - 1))

\* lines 411-416: the entries printed
Printed(sorted, top_n) == SubSeq(sorted, 1, Min(top_n, Len(sorted)))

(***************************************************************************)
(* feature.hpp: createGlobalTermsTable                                     *)
(***************************************************************************)
\* sqlite3_step of the plain INSERT INTO global_terms (primary key term):
\* SQLITE_DONE unless the lock is taken or a row with the term is there
TermStepDone(t, row, ok) == ok /\ \A r \in t.rows : r.term # row.term

RECURSIVE TermsLoop(_, _, _, _)
\* the for loop of lines 472-494 from entry i on, each INSERT in autocommit
\* mode; a failed step leaves through the return of line 487
TermsLoop(filtered_tokens, i, t, ok) ==
    IF i > Len(filtered_tokens) THEN [table |-> t, outcome |-> "finished"]
    ELSE LET entry == filtered_tokens[i]
             row == [term |-> entry.token, count |-> entry.frequency,
                     frequency |-> entry.weight]
         IN  IF TermStepDone(t, row, ok)
             THEN TermsLoop(filtered_tokens, i + 1,
                            [t EXCEPT !.rows = @ \cup {row}], ok)
             ELSE [table |-> t, outcome |-> "returned"]

\* FEATURE::createGlobalTermsTable on the committed table gt: the committed
\* table and the outcome ("finished": line 498 was reached, "returned": the
\* return of line 487, "error": the catch of line 499 ran)
RunGlobalTerms(gt, lk, terms, reset_table) ==
    LET ok == lk = "free"
        \* lines 436-449: DROP TABLE IF EXISTS under reset_table, then
        \* CREATE TABLE IF NOT EXISTS
        fresh == reset_table \/ ~gt.exists
        base == IF fresh THEN NewTable ELSE gt
        total_frequency == SumOver(terms, DOMAIN terms)
        filtered_tokens == token_filter(terms, max_length, min_value,
                                        IntToDouble(total_frequency))
        run == TermsLoop(filtered_tokens, 1, base, ok)
    IN  IF fresh /\ ~ok
        THEN \* the schema change fails with SQLITE_BUSY and execute_sql throws
             [table |-> gt, outcome |-> "error", journal |-> <<"open">>]
        ELSE \* both ways out of the loop close the connection (lines 486, 498)
             [table |-> run.table, outcome |-> run.outcome,
              journal |-> <<"open">>
                          \o (IF reset_table /\ gt.exists THEN <<"drop">> ELSE <<>>)
                          \o (IF fresh THEN <<"create">> ELSE <<>>)
                          \o Repeat("insert", Cardinality(run.table.rows)
                                               - Cardinality(base.rows))
                          \o <<"close">>]

(***************************************************************************)
(* The calls                                                               *)
(***************************************************************************)
\* the arguments of UPDATE_INFO::create_unique_id
NoArgs == [path |-> <<>>, epoch_time |-> 0, chunk_count |-> 0, starting_id |-> 0]

\* what main's wrapper prints when the call has returned (main.cpp lines 32,
\* 39, 45): the calls return void and the line does not depend on the call
WrapperReport(outcome) == "Finished"

\* the record of a call: fields a call does not use keep these values
NoCall ==
    [op |-> "none", files |-> <<>>, content |-> <<>>, reset_table |-> FALSE,
     outcome |-> "none", prompt |-> Unreadable, top_n |-> 0,
     retrieved |-> <<>>, RESULT |-> <<>>, printed |-> <<>>,
     args |-> NoArgs, id |-> <<>>,
     tokens |-> EmptyMap, max_length |-> 0, min_value |-> 0,
     relational_distance |-> Sqrt(0), filtered_tokens |-> <<>>,
     entries |-> <<>>, journal |-> <<>>, reported |-> "none"]

Range(s) == {s[i] : i \in 1..Len(s)}

\* a database file the extractor has filled and the C++ core has not touched
Init ==
    /\ file_token = NoTable
    /\ relation_distance = NoTable
    /\ file_info = NoSeqTable
    /\ pdf_chunks = InitChunks
    /\ mtime = InitMtime
    /\ global_terms = NoTable
    /\ lock = "free"
    /\ last = NoCall

ComputeRelationalDistance(files, content, reset_table) ==
    /\ last = NoCall
    /\ \E r \in {RunRelationalDistance(file_token, relation_distance, lock,
                                         files, content, reset_table)} :
          /\ file_token' = r.tables.file_token
          /\ relation_distance' = r.tables.relation_distance
          /\ lock' = r.lock
          /\ last' = [NoCall EXCEPT !.op = "computeRelationalDistance",
                                    !.files = files, !.content = content,
                                    !.reset_table = reset_table,
                                    !.outcome = r.outcome,
                                    !.journal = r.journal,
                                    !.reported = WrapperReport(r.outcome)]
    /\ UNCHANGED <<file_info, pdf_chunks, mtime, global_terms>>

ComputeResourceData(files, reset_table) ==
    /\ last = NoCall
    /\ \E r \in {RunResourceData(file_info, pdf_chunks, mtime, lock, files,
                                   reset_table)} :
          /\ file_info' = r.table
          /\ last' = [NoCall EXCEPT !.op = "computeResourceData",
                                    !.files = files, !.reset_table = reset_table,
                                    !.entries = r.entries,
                                    !.outcome = r.outcome,
                                    !.journal = r.journal,
                                    !.reported = WrapperReport(r.outcome)]
    /\ UNCHANGED <<file_token, relation_distance, pdf_chunks, mtime, global_terms, lock>>

ProcessPrompt(prompt, top_n) ==
    /\ last = NoCall
    /\ \E r \in {RunPrompt(file_info, relation_distance, prompt)} :
          \E sorted \in SortOutcomes(r.RESULT) :
              last' = [NoCall EXCEPT !.op = "processPrompt",
                                     !.prompt = prompt, !.top_n = top_n,
                                     !.outcome = r.outcome,
                                     !.journal = r.journal,
                                     !.reported = WrapperReport(r.outcome),
                                     !.retrieved = r.RESULT,
                                     !.RESULT = sorted,
                                     !.printed = IF r.outcome = "finished"
                                                 THEN Printed(sorted, top_n)
                                                 ELSE <<>>]
    /\ UNCHANGED <<file_token, relation_distance, file_info,
                   pdf_chunks, mtime, global_terms, lock>>

\* a rebuild that also empties the document table
CreateGlobalTermsTableAndClear(terms, reset_table) ==
    /\ last = NoCall
    /\ \E r \in {RunGlobalTerms(global_terms, lock, terms, reset_table)} :
          /\ global_terms' = r.table
          /\ last' = [NoCall EXCEPT !.op = "createGlobalTermsTable",
                                    !.tokens = terms, !.reset_table = reset_table,
                                    !.outcome = r.outcome,
                                    !.journal = r.journal]
    /\ file_token' = [file_token EXCEPT !.rows = {}]
    /\ UNCHANGED <<relation_distance, file_info, pdf_chunks, mtime, lock>>

CreateGlobalTermsTable(terms, reset_table) ==
    /\ last = NoCall
    /\ \E r \in {RunGlobalTerms(global_terms, lock, terms, reset_table)} :
          /\ global_terms' = r.table
          /\ last' = [NoCall EXCEPT !.op = "createGlobalTermsTable",
                                    !.tokens = terms, !.reset_table = reset_table,
                                    !.outcome = r.outcome,
                                    !.journal = r.journal]
    /\ UNCHANGED <<file_token, relation_distance, file_info, pdf_chunks, mtime,
                   lock>>

\* the process ends: its connections are gone, an open transaction is
\* rolled back by the next connection that opens the file
ProcessExit ==
    /\ last = NoCall
    /\ lock = "leaked"
    /\ lock' = "free"
    /\ UNCHANGED <<file_token, relation_distance, file_info, pdf_chunks, mtime, global_terms, last>>

IngestDocuments(reset_table) ==
    \E files \in SubLists(JsonListing) :
        \E content \in [Range(files) -> DocContents] :
            ComputeRelationalDistance(files, content, reset_table)

IngestDocumentInfo(reset_table) ==
    \E files \in SubLists(PdfListing) : ComputeResourceData(files, reset_table)

Rank ==
    \E prompt \in PromptContents, top_n \in 0..MaxTopN : ProcessPrompt(prompt, top_n)

\* main's loop over the command-line arguments moves on
Dispatch ==
    /\ last # NoCall
    /\ last' = NoCall
    /\ UNCHANGED <<file_token, relation_distance, file_info, pdf_chunks, mtime, global_terms, lock>>

\* the calls with reset_table at its default, which main.cpp passes too
Next ==
    \/ IngestDocuments(TRUE)
    \/ IngestDocumentInfo(TRUE)
    \/ Rank
    \/ Dispatch
    \/ ProcessExit

Spec == Init /\ [][Next]_vars

\* the calls with either value of reset_table; the ranking is left out
NextApi ==
    \/ \E reset_table \in BOOLEAN : IngestDocuments(reset_table)
    \/ \E reset_table \in BOOLEAN : IngestDocumentInfo(reset_table)
    \/ Dispatch
    \/ ProcessExit

SpecApi == Init /\ [][NextApi]_vars

\* the arguments create_unique_id is called with: paths "a", "D:\a.pdf" and
\* "D:/b.pdf"; times from the sentinel of get_epoch_time to a recent date;
\* chunk counts and starting ids as read from pdf_chunks, and beyond
IdPaths == {<<97>>, PdfA, <<68, 58, 47, 98, 46, 112, 100, 102>>}
IdEpochs == {0 - 7201, 0 - 1, 0, 1, 3599, 3600, 1700000000}
IdChunkCounts == {0 - 1, 0, 1, 2, 12}
IdStartingIds == {0 - 3, 0, 1, 5, 1073741825}

CreateUniqueId(path, epoch_time, chunk_count, starting_id) ==
    /\ last = NoCall
    /\ last' = [NoCall EXCEPT
                    !.op = "create_unique_id",
                    !.outcome = "finished",
                    !.args = [path |-> path, epoch_time |-> epoch_time,
                              chunk_count |-> chunk_count, starting_id |-> starting_id],
                    !.id = create_unique_id(path, epoch_time, chunk_count, starting_id)]
    /\ UNCHANGED <<file_token, relation_distance, file_info, pdf_chunks, mtime, global_terms, lock>>

EncodeIdentity ==
    \E path \in IdPaths, epoch_time \in IdEpochs,
       chunk_count \in IdChunkCounts, starting_id \in IdStartingIds :
        CreateUniqueId(path, epoch_time, chunk_count, starting_id)

\* the identity encoder called on its own
NextId ==
    \/ EncodeIdentity
    \/ Dispatch

SpecId == Init /\ [][NextId]_vars

(***************************************************************************)
(* The transform called on its own                                         *)
(***************************************************************************)
\* "" (the empty key), "Cat2", and 15 and 16 lowercase letters
TokEmpty == <<>>
TokCat2 == <<67, 97, 116, 50>>
Tok15 == [i \in 1..15 |-> 97]
Tok16 == [i \in 1..16 |-> 97]

\* the maps handed to the transform: those of the documents and prompts, and
\* maps with keys and counts at the edges of the filter and of int
TransformMaps ==
    DocMaps \cup PromptMaps \cup
    { (TokAB :> 3) @@ (TokCD :> 4),
      (TokEmpty :> MaxFreq) @@ (TokAB :> min_value),
      (TokCat2 :> MaxFreq) @@ (TokAB :> 2),
      (Tok15 :> MaxFreq) @@ (Tok16 :> MaxFreq) @@ (TokAB :> 1),
      (TokAB :> 0),
      (TokAB :> 46340) @@ (TokCD :> 3),
      (TokAB :> 46341) @@ (TokCD :> 3),
      (TokAB :> 65536),
      (TokAB :> 65536) @@ (TokCD :> 4) }

\* the norms token_filter is called with: the norm of the map itself
\* (computeRelationalDistance), the norm cut to an int (processPrompt), and 0
NormsFor(tokens) ==
    {Pythagoras(tokens), Sqrt(0)} \cup
    (IF Pythagoras(tokens).sq >= 0
     THEN {IntToDouble(TruncToInt(Pythagoras(tokens)))} ELSE {})

FilterTokens ==
    \E tokens \in TransformMaps,
       maxLen \in {max_length, prompt_max_length},
       minVal \in {min_value, prompt_min_value} :
        \E relational_distance \in NormsFor(tokens) :
            /\ last = NoCall
            /\ last' = [NoCall EXCEPT
                            !.op = "token_filter",
                            !.outcome = "finished",
                            !.tokens = tokens,
                            !.max_length = maxLen,
                            !.min_value = minVal,
                            !.relational_distance = relational_distance,
                            !.filtered_tokens =
                                token_filter(tokens, maxLen, minVal, relational_distance)]
            /\ UNCHANGED <<file_token, relation_distance, file_info,
                           pdf_chunks, mtime, global_terms, lock>>

ComputeNorm ==
    \E tokens \in TransformMaps :
        /\ last = NoCall
        /\ last' = [NoCall EXCEPT
                        !.op = "Pythagoras",
                        !.outcome = "finished",
                        !.tokens = tokens,
                        !.relational_distance = Pythagoras(tokens)]
        /\ UNCHANGED <<file_token, relation_distance, file_info,
                       pdf_chunks, mtime, global_terms, lock>>

NextTransform ==
    \/ FilterTokens
    \/ ComputeNorm
    \/ Dispatch

SpecTransform == Init /\ [][NextTransform]_vars

(***************************************************************************)
(* The global-terms rebuild on its own                                     *)
(***************************************************************************)
\* the corpus-wide frequency maps the caller aggregates from the documents
TermMaps ==
    DocMaps \cup
    { (TokAB :> 3) @@ (TokCD :> 4),
      (TokAB :> MaxFreq),
      (TokCD :> min_value),
      (TokAB :> min_value) @@ (TokCD :> min_value),
      (TokCD :> MaxFreq) @@ (TokCD2 :> 1) }

RebuildGlobalTerms ==
    \E terms \in TermMaps, reset_table \in BOOLEAN :
        CreateGlobalTermsTable(terms, reset_table)

NextTerms ==
    \/ RebuildGlobalTerms
    \/ Dispatch

SpecTerms == Init /\ [][NextTerms]_vars

(***************************************************************************)
(* All four operations on one database file                                *)
(***************************************************************************)
NextAll ==
    \/ IngestDocuments(TRUE)
    \/ IngestDocumentInfo(TRUE)
    \/ Rank
    \/ RebuildGlobalTerms
    \/ Dispatch
    \/ ProcessExit

SpecAll == Init /\ [][NextAll]_vars

(***************************************************************************)
(* Ingestion of documents with large counts                                *)
(***************************************************************************)
\* frequency maps with counts at the edge of int multiplication
LargeDocMaps ==
    DocMaps \cup
    { (TokAB :> 46340) @@ (TokCD :> min_value),
      (TokAB :> 46341) @@ (TokCD :> min_value),
      (TokAB :> 65536) }
LargeDocContents == {Readable(m) : m \in LargeDocMaps}

IngestLargeDocuments ==
    \E files \in SubLists(JsonListing) :
        \E content \in [Range(files) -> LargeDocContents] :
            ComputeRelationalDistance(files, content, TRUE)

NextLarge ==
    \/ IngestLargeDocuments
    \/ Dispatch

SpecLarge == Init /\ [][NextLarge]_vars

(***************************************************************************)
(* Repeated metadata runs on files that are edited between the runs        *)
(***************************************************************************)
\* the times std::filesystem::last_write_time can give for a file
EditTimes == {1700000000, 1700000123}

\* a PDF file is saved again: its modification time changes
FileModified ==
    /\ last = NoCall
    /\ \E file \in PdfFiles, t \in EditTimes :
          /\ mtime[file] # [ok |-> TRUE, time |-> t]
          /\ mtime' = [mtime EXCEPT ![file] = [ok |-> TRUE, time |-> t]]
    /\ UNCHANGED <<file_token, relation_distance, file_info, pdf_chunks,
                   global_terms, lock, last>>

NextRerun ==
    \/ \E reset_table \in BOOLEAN : IngestDocumentInfo(reset_table)
    \/ FileModified
    \/ Dispatch

SpecRerun == Init /\ [][NextRerun]_vars

(***************************************************************************)
(* The metadata path on its own: computeResourceData over a folder with    *)
(* two files whose paths are anagrams of each other, chunk tables as the   *)
(* extractor may have left them, and files that cannot be stat'ed          *)
(***************************************************************************)
\* "D:\ab.pdf" and "D:\ba.pdf": the same bytes in another order
PdfAB == <<68, 58, 92, 97, 98, 46, 112, 100, 102>>
PdfBA == <<68, 58, 92, 98, 97, 46, 112, 100, 102>>
InfoFiles == {PdfA, PdfAB, PdfBA}

\* a file that std::filesystem::last_write_time throws on
NoStat == [ok |-> FALSE, time |-> 0]
StatAt(t) == [ok |-> TRUE, time |-> t]
\* the modification times of the three files
MtimeChoices ==
    { (PdfA :> StatAt(1700000000)) @@ (PdfAB :> StatAt(1700000123)) @@ (PdfBA :> StatAt(1700000123)),
      (PdfA :> StatAt(1700000000)) @@ (PdfAB :> StatAt(1700000123)) @@ (PdfBA :> StatAt(1700000456)),
      (PdfA :> StatAt(1700000000)) @@ (PdfAB :> NoStat) @@ (PdfBA :> StatAt(1700000123)),
      (PdfA :> StatAt(1700000000)) @@ (PdfAB :> NoStat) @@ (PdfBA :> NoStat),
      (PdfA :> NoStat) @@ (PdfAB :> StatAt(1700000123)) @@ (PdfBA :> StatAt(1700000123)) }

ChunkRow(file, id, index) == [file_name |-> file, id |-> id, chunk_index |-> index]
\* the chunk tables: never created, empty, and filled for some of the files
ChunkTables ==
    { [exists |-> FALSE, rows |-> {}],
      [exists |-> TRUE, rows |-> {}],
      InitChunks,
      [exists |-> TRUE,
       rows |-> {ChunkRow(PdfA, 5, 0), ChunkRow(PdfAB, 7, 0), ChunkRow(PdfBA, 8, 0),
                 ChunkRow(PdfAB, 9, 1), ChunkRow(PdfAB, 12, 2)}],
      [exists |-> TRUE,
       rows |-> {ChunkRow(PdfA, 6, 1), ChunkRow(PdfA, 5, 0), ChunkRow(PdfAB, 12, 2),
                 ChunkRow(PdfAB, 7, 0), ChunkRow(PdfAB, 9, 1)}] }

InitInfo ==
    /\ file_token = NoTable
    /\ relation_distance = NoTable
    /\ file_info = NoSeqTable
    /\ pdf_chunks \in ChunkTables
    /\ mtime \in MtimeChoices
    /\ global_terms = NoTable
    /\ lock = "free"
    /\ last = NoCall

\* the lists of distinct files of a set, in any order
Orderings(S) ==
    UNION {{f \in [1..n -> S] : \A i, j \in 1..n : f[i] = f[j] => i = j} :
              n \in 0..Cardinality(S)}

IngestInfoBatch ==
    \E files \in Orderings(InfoFiles), reset_table \in BOOLEAN :
        ComputeResourceData(files, reset_table)

NextInfo ==
    \/ IngestInfoBatch
    \/ Dispatch

SpecInfo == InitInfo /\ [][NextInfo]_vars

(***************************************************************************)
(* Properties                                                              *)
(***************************************************************************)
IsIngest == last.op = "computeRelationalDistance"
IsInfo == last.op = "computeResourceData"
IsPrompt == last.op = "processPrompt"

\* the rows the tables hold for one document key
VectorRowsOf(key) == {r \in file_token.rows : r.file_name = key}
WeightRowsOf(key) == {r \in relation_distance.rows : r.file_name = key}

\* the tokens of a map that satisfy the filtering criterion of the design:
\* lowercase letters only, at most max_length long, count at least min_value
Surviving(m) ==
    {k \in DOMAIN m : contains_only_letters(k) /\ Len(k) <= max_length /\ m[k] >= min_value}

\* the i-th document of the call that has just returned
DocFile(i) == last.files[i]
DocMap(i) == last.content[last.files[i]].map
DocOk(i) == last.content[last.files[i]].ok

\* C1: after computeRelationalDistance has finished, the norm stored for each
\* ingested document is the Euclidean norm of its full, unfiltered map, and
\* every stored weight is frequency / that norm.
C1_FullMapNorm ==
    (IsIngest /\ last.outcome = "finished") =>
        \A i \in 1..Len(last.files) :
            /\ \A r \in VectorRowsOf(Stem(DocFile(i))) :
                    r.relational_distance = Pythagoras(DocMap(i))
            /\ \A r \in WeightRowsOf(Stem(DocFile(i))) :
                    WeightEq(r.relational_distance,
                             Quot(r.frequency, Pythagoras(DocMap(i))))

\* C2: a call of computeRelationalDistance or computeResourceData that does
\* not finish leaves the rows of its tables as they were before the call.
C2_AllOrNothing ==
    [][ ((last'.op = "computeRelationalDistance" \/ last'.op = "computeResourceData")
            /\ last'.outcome # "finished")
        => /\ file_token'.rows = file_token.rows
           /\ relation_distance'.rows = relation_distance.rows
           /\ file_info'.rows = file_info.rows ]_vars

\* C3: when a document of the list cannot be read, every readable document
\* of the list is still ingested and committed.
C3_OthersIngested ==
    (IsIngest /\ \E i \in 1..Len(last.files) : ~DocOk(i)) =>
        \A i \in 1..Len(last.files) :
            DocOk(i) =>
                \E r \in VectorRowsOf(Stem(DocFile(i))) :
                    /\ r.total_tokens = DataEntryOf(DocFile(i), DocMap(i)).sum
                    /\ r.unique_tokens = DataEntryOf(DocFile(i), DocMap(i)).num_unique_tokens

\* every primary key occurs once
KeysUnique ==
    /\ \A r1, r2 \in file_token.rows : r1.file_name = r2.file_name => r1 = r2
    /\ \A r1, r2 \in relation_distance.rows :
            (r1.file_name = r2.file_name /\ r1.Token = r2.Token) => r1 = r2
    /\ \A i, j \in 1..Len(file_info.rows) :
            file_info.rows[i].id = file_info.rows[j].id => i = j

\* C8: running the ingestion that has just returned once more, on the same
\* inputs, leaves every table as it is, and each table holds one row per key.
C8_IdempotentUpsert ==
    /\ KeysUnique
    /\ IsIngest =>
          RunRelationalDistance(file_token, relation_distance, lock, last.files,
                                last.content, last.reset_table).tables
            = [file_token |-> file_token, relation_distance |-> relation_distance]
    /\ IsInfo =>
          RunResourceData(file_info, pdf_chunks, mtime, lock, last.files,
                          last.reset_table).table = file_info
    /\ (IsIngest /\ last.outcome = "finished" /\ lock = "free" /\ file_token.exists) =>
          \A i \in 1..Len(last.files) :
              VectorRowsOf(Stem(DocFile(i))) =
                  {[file_name |-> Stem(DocFile(i)),
                    total_tokens |-> DataEntryOf(DocFile(i), DocMap(i)).sum,
                    unique_tokens |-> DataEntryOf(DocFile(i), DocMap(i)).num_unique_tokens,
                    relational_distance |-> DataEntryOf(DocFile(i), DocMap(i)).relational_distance]}
    /\ (IsInfo /\ last.outcome = "finished" /\ lock = "free" /\ file_info.exists) =>
          \A i \in 1..Len(last.files) :
              \E k \in 1..Len(file_info.rows) :
                  file_info.rows[k] = DataInfoOf(pdf_chunks, mtime, last.files[i])

\* a finished upsert (no table reset) over rows an earlier run had stored
C8_Witness ==
    /\ \/ IsIngest /\ relation_distance.rows # {} /\ file_token.rows # {}
       \/ IsInfo /\ Len(file_info.rows) = 2
    /\ last.outcome = "finished"
    /\ ~last.reset_table
    /\ last.files # <<>>

\* C9: after an ingestion run has finished, the token-weight rows of each
\* ingested document are exactly the surviving tokens of the map of that run.
C9_RowsFullyReplaced ==
    (IsIngest /\ last.outcome = "finished" /\ relation_distance.exists /\ lock = "free") =>
        \A i \in 1..Len(last.files) :
            {r.Token : r \in WeightRowsOf(Stem(DocFile(i)))} = Surviving(DocMap(i))

\* the place of a document in a list of results
PosIn(list, id) == CHOOSE k \in 1..Len(list) : list[k].id = id
SameScore(x, y) == ~SumGreater(x, y) /\ ~SumGreater(y, x)

\* the filtered prompt of the call that has just returned
QueryTokens == PromptTokens(last.prompt.map)
QueryIndex == 1..Len(QueryTokens)

\* C4: the list processPrompt leaves is ordered by score descending, and two
\* documents of equal score keep the order in which file_info returned them.
C4_StableDescending ==
    (IsPrompt /\ last.outcome = "finished") =>
        \A i, j \in 1..Len(last.RESULT) :
            i < j =>
                /\ ~SumGreater(last.RESULT[j].total_distance, last.RESULT[i].total_distance)
                /\ SameScore(last.RESULT[i].total_distance, last.RESULT[j].total_distance)
                      => PosIn(last.retrieved, last.RESULT[i].id)
                            < PosIn(last.retrieved, last.RESULT[j].id)

\* the rows of the weight table for one (document, token) pair
StoredWeights(id, token) ==
    {r \in relation_distance.rows : r.file_name = TitlePrefix \o id /\ r.Token = token}

\* the sum over the filtered query tokens of queryWeight * storedWeight, a
\* pair without a row contributing nothing
ExpectedScore(id) ==
    LET hits == {k \in QueryIndex : StoredWeights(id, QueryTokens[k].token) # {}}
        row(k) == CHOOSE r \in StoredWeights(id, QueryTokens[k].token) : TRUE
        den(k) == QueryTokens[k].weight.den.sq * row(k).relational_distance.den.sq
        dens == {den(k) : k \in hits}
    IN  [d \in dens |->
            SumOver([k \in {h \in hits : den(h) = d} |->
                        QueryTokens[k].weight.num * row(k).relational_distance.num],
                    {h \in hits : den(h) = d})]

\* C5: the score of every listed document is the sum over the filtered query
\* tokens of queryWeight * storedWeight, a missing (document, token) pair
\* counting 0; a document without any stored weight for the query scores 0.
C5_ScoreFormula ==
    (IsPrompt /\ last.outcome = "finished") =>
        /\ Len(last.RESULT) = Len(file_info.rows)
        /\ \A i \in 1..Len(last.RESULT) :
              /\ DOMAIN last.RESULT[i].total_distance = DOMAIN ExpectedScore(last.RESULT[i].id)
              /\ \A d \in DOMAIN last.RESULT[i].total_distance :
                    last.RESULT[i].total_distance[d] = ExpectedScore(last.RESULT[i].id)[d]
              /\ (\A k \in QueryIndex : StoredWeights(last.RESULT[i].id, QueryTokens[k].token) = {})
                    => last.RESULT[i].total_distance = ZeroSum

\* a ranking with a document that has a weight for one query token and none
\* for another, and a document that has none at all
C5_Witness ==
    /\ IsPrompt /\ last.outcome = "finished"
    /\ \E i \in 1..Len(last.RESULT) :
          /\ last.RESULT[i].total_distance # ZeroSum
          /\ \E k \in QueryIndex : StoredWeights(last.RESULT[i].id, QueryTokens[k].token) = {}
    /\ \E i \in 1..Len(last.RESULT) : last.RESULT[i].total_distance = ZeroSum

C6_WitnessCut ==
    /\ IsPrompt /\ last.outcome = "finished"
    /\ last.top_n = 1 /\ Len(last.RESULT) = 2 /\ Len(last.printed) = 1

\* the rows ingested from the frequency-map file of one PDF document
IngestedRowsOf(pdf) == WeightRowsOf(Stem(JsonFileOf(pdf)))

SingleNorm ==
    \A i \in 1..Len(last.RESULT) : Cardinality(DOMAIN last.RESULT[i].total_distance) <= 1

(***************************************************************************)
(* The identity encoder, restated on fixed-width numbers multiplied digit   *)
(* by digit and read back from the text it returns                         *)
(***************************************************************************)
IsId == last.op = "create_unique_id"

ZeroU(n) == [i \in 1..n |-> 0]
OneU(n) == [i \in 1..n |-> IF i = 1 THEN 1 ELSE 0]

RECURSIVE AddFrom(_, _, _, _, _)
\* the bytes of a + b from byte i on, given the carry into byte i
AddFrom(a, b, i, carry, n) ==
    IF i > n THEN <<>>
    ELSE <<(a[i] + b[i] + carry) % 256>>
            \o AddFrom(a, b, i + 1, (a[i] + b[i] + carry) \div 256, n)
\* a + b modulo 256^n
AddU(a, b, n) == AddFrom(a, b, 1, 0, n)
\* 0 - a modulo 256^n
NegU(a, n) == AddFrom([i \in 1..n |-> 255 - a[i]], ZeroU(n), 1, 1, n)

RECURSIVE ScaleFrom(_, _, _, _, _)
\* the bytes of a * d from byte i on, for one digit d < 256
ScaleFrom(a, d, i, carry, n) ==
    IF i > n THEN <<>>
    ELSE <<(a[i] * d + carry) % 256>>
            \o ScaleFrom(a, d, i + 1, (a[i] * d + carry) \div 256, n)
\* a * 256^s modulo 256^n
ShiftBytes(a, s, n) == SubSeq(ZeroU(n), 1, s) \o SubSeq(a, 1, n - s)

RECURSIVE TimesDigits(_, _, _, _)
\* a * k * 256^s modulo 256^n, one base-256 digit of k at a time
TimesDigits(a, k, s, n) ==
    IF k = 0 \/ s >= n THEN ZeroU(n)
    ELSE AddU(ShiftBytes(ScaleFrom(a, k % 256, 1, 0, n), s, n),
              TimesDigits(a, k \div 256, s + 1, n), n)
\* a * k modulo 256^n for a natural number k
TimesNat(a, k, n) == TimesDigits(a, k, 0, n)
\* a * k modulo 256^n for an integer k
TimesInt(a, k, n) ==
    IF k >= 0 THEN TimesNat(a, k, n) ELSE NegU(TimesNat(a, 0 - k, n), n)

\* bitwise exclusive or of two bytes
XorBits(a, b) ==
    LET bit(i) == (((a \div (2^i)) % 2) + ((b \div (2^i)) % 2)) % 2
    IN  bit(0) + 2 * bit(1) + 4 * bit(2) + 8 * bit(3)
          + 16 * bit(4) + 32 * bit(5) + 64 * bit(6) + 128 * bit(7)

\* the value of a lowercase hexadecimal digit, -1 for any other character
HexDigit(c) ==
    IF c \in 48..57 THEN c - 48 ELSE IF c \in 97..102 THEN c - 87 ELSE 0 - 1
IsLowerHex(str) == \A i \in 1..Len(str) : HexDigit(str[i]) >= 0
\* the number a hexadecimal text of at most 2n digits denotes, as n bytes
ParseHex(str, n) ==
    LET digit(j) == IF j + Len(str) > 2 * n THEN HexDigit(str[j + Len(str) - 2 * n]) ELSE 0
    IN  [i \in 1..n |-> 16 * digit(2 * n - 2 * i + 1) + digit(2 * n - 2 * i + 2)]

\* the three segments of the identifier of the call that has just returned
NameText == SubSeq(last.id, 1, Len(last.id) - 16)
StartText == SubSeq(last.id, Len(last.id) - 15, Len(last.id) - 8)
RedundancyText == SubSeq(last.id, Len(last.id) - 7, Len(last.id))

ExpectedName ==
    TimesInt(TimesNat(TimesNat(OneU(8), SumSeq(generic_string(last.args.path)), 8),
                      Max(1, last.args.chunk_count), 8),
             last.args.epoch_time, 8)
ExpectedStart(effectiveStartId) ==
    TimesInt(TimesInt(OneU(4), effectiveStartId, 4), 2 * (last.args.chunk_count + 1), 4)

\* the identifier is the three segments of the design for this start id
IdMatches(effectiveStartId) ==
    /\ Len(last.id) >= 17 /\ Len(last.id) <= 32
    /\ IsLowerHex(last.id)
    /\ Len(NameText) = 1 \/ NameText[1] # 48
    /\ ParseHex(NameText, 8) = ExpectedName
    /\ ParseHex(StartText, 4) = ExpectedStart(effectiveStartId)
    /\ ParseHex(RedundancyText, 4) =
          [i \in 1..4 |-> XorBits(ExpectedName[i], ExpectedStart(effectiveStartId)[i])]

InfoOf(files, k) == DataInfoOf(pdf_chunks, mtime, files[k])
\* two files of the batch get the same id
Collides(files) ==
    \E i, j \in 1..Len(files) : i < j /\ InfoOf(files, i).id = InfoOf(files, j).id
\* the last file of the batch that gets the id of the k-th
LastWithId(files, k) ==
    CHOOSE j \in 1..Len(files) :
        /\ InfoOf(files, j).id = InfoOf(files, k).id
        /\ \A h \in 1..Len(files) : InfoOf(files, h).id = InfoOf(files, k).id => h <= j
\* Collides and LastWithId on the entries the call has built
CollidesIn(info) == \E i, j \in 1..Len(info) : i < j /\ info[i].id = info[j].id
LastIn(info, k) ==
    CHOOSE j \in 1..Len(info) :
        /\ info[j].id = info[k].id
        /\ \A h \in 1..Len(info) : info[h].id = info[k].id => h <= j
\* the places of table t that hold the id
PlacesOf(t, id) == {i \in 1..Len(t.rows) : t.rows[i].id = id}

\* C11: a computeResourceData batch in which two distinct files get the same
\* id finishes and commits; file_info then holds one row for every id of the
\* batch, with the values of the last file that got this id, and the rows of
\* files outside the batch stay (unless the table was reset).
C11_CollisionReplaces ==
    [][ LET info == last'.entries
        IN  (/\ last'.op = "computeResourceData"
             /\ CollidesIn(info)
             /\ (file_info.exists \/ last'.reset_table)
             /\ lock = "free")
            => /\ last'.outcome = "finished"
               /\ file_info'.exists
               /\ \A k \in 1..Len(info) :
                     /\ Cardinality(PlacesOf(file_info', info[k].id)) = 1
                     /\ \A i \in PlacesOf(file_info', info[k].id) :
                           file_info'.rows[i] = info[LastIn(info, k)]
               /\ ~last'.reset_table =>
                     \A i \in 1..Len(file_info.rows) :
                        (\A k \in 1..Len(info) : info[k].id # file_info.rows[i].id)
                        => \E j \in 1..Len(file_info'.rows) :
                              file_info'.rows[j] = file_info.rows[i]
      ]_vars

\* a batch with a collision has run on a table that held another file's row
C11_Witness ==
    /\ IsInfo /\ last.outcome = "finished" /\ ~last.reset_table
    /\ Collides(last.files)
    /\ Len(last.files) = 2
    /\ Len(file_info.rows) = 2
    /\ \E i \in 1..Len(file_info.rows) : file_info.rows[i].file_path = PdfA
    /\ \E i \in 1..Len(file_info.rows) :
          file_info.rows[i].file_path = last.files[2]

(***************************************************************************)
(* The transform                                                           *)
(***************************************************************************)
IsFilter == last.op = "token_filter"
IsNorm == last.op = "Pythagoras"

\* the tokens of the result of the token_filter call that has just returned
EmittedAt == 1..Len(last.filtered_tokens)
Emitted == {last.filtered_tokens[i].token : i \in EmittedAt}

\* key matches [a-z]+: one or more characters, each a lowercase letter
MatchesLowerWord(key) ==
    /\ Len(key) >= 1
    /\ \A i \in 1..Len(key) : key[i] \in 97..122

\* C12: token_filter returns exactly the entries whose token matches [a-z]+,
\* is at most maxLen long and has a frequency of at least minFreq, each once
\* and with its frequency.
C12_ExactFilter ==
    IsFilter =>
        /\ Emitted = {k \in DOMAIN last.tokens :
                        /\ MatchesLowerWord(k)
                        /\ Len(k) <= last.max_length
                        /\ last.tokens[k] >= last.min_value}
        /\ \A i, j \in EmittedAt :
              last.filtered_tokens[i].token = last.filtered_tokens[j].token => i = j
        /\ \A i \in EmittedAt :
              last.filtered_tokens[i].frequency = last.tokens[last.filtered_tokens[i].token]

\* C13: called with the norm 0, token_filter emits no token whose weight is a
\* quotient by zero.
C13_NoZeroDivision ==
    (IsFilter /\ last.relational_distance.sq = 0) =>
        \A i \in EmittedAt : last.filtered_tokens[i].weight.den.sq # 0

RECURSIVE ExactSquares(_, _)
\* the sum of tokens[k]^2 over the keys k of S, as a 64-bit number
ExactSquares(tokens, S) ==
    IF S = {} THEN ZeroU(8)
    ELSE LET k == CHOOSE x \in S : TRUE
         IN  AddU(TimesNat(TimesNat(OneU(8), tokens[k], 8), tokens[k], 8),
                  ExactSquares(tokens, S \ {k}), 8)

\* C14: the square of Pythagoras(map) is the exact sum of the squares of all
\* counts of the map, and Pythagoras of the empty map is 0.
C14_ExactNorm ==
    IsNorm =>
        /\ last.relational_distance.sq >= 0
        /\ TimesNat(OneU(8), last.relational_distance.sq, 8)
              = ExactSquares(last.tokens, DOMAIN last.tokens)
        /\ last.tokens = EmptyMap => last.relational_distance = Sqrt(0)

(***************************************************************************)
(* The global-terms rebuild                                                *)
(***************************************************************************)
IsTerms == last.op = "createGlobalTermsTable"

RECURSIVE TotalCount(_, _)
\* the total count of the terms of S in the map
TotalCount(terms, S) ==
    IF S = {} THEN 0
    ELSE LET k == CHOOSE x \in S : TRUE
         IN  terms[k] + TotalCount(terms, S \ {k})

\* the rows a rebuild from the map has to leave in the table
ExpectedTerms(terms) ==
    LET total == TotalCount(terms, DOMAIN terms)
    IN  {[term |-> k, count |-> terms[k],
          frequency |-> [num |-> terms[k], den |-> [sq |-> total * total]]] :
            k \in {x \in DOMAIN terms :
                     /\ MatchesLowerWord(x)
                     /\ Len(x) <= 14
                     /\ terms[x] >= 3}}

\* C15: after every createGlobalTermsTable run, for either value of
\* reset_table and whatever the table held before, the table holds exactly the
\* filtered terms of the input map with count and count / total count, and no
\* row of an earlier run.
C15_ExactRebuild ==
    IsTerms =>
        /\ global_terms.exists
        /\ global_terms.rows = ExpectedTerms(last.tokens)

\* the rows of the chunk table stored under a path
ChunksOf(file_path) ==
    IF pdf_chunks.exists THEN {x \in pdf_chunks.rows : x.file_name = file_path}
    ELSE {}

NoMtime(files, k) == ~mtime[files[k]].ok

\* C17: when the modification time of a file cannot be read, get_epoch_time
\* gives -1 and computeResourceData goes on: every file of the batch is
\* processed, the batch is committed and the call finishes.
C17_UnreadableTimeTolerated ==
    [][ LET info == last'.entries
        IN  (/\ last'.op = "computeResourceData"
             /\ \E k \in 1..Len(last'.files) : NoMtime(last'.files, k)
             /\ (file_info.exists \/ last'.reset_table)
             /\ lock = "free")
            => /\ last'.outcome = "finished"
               /\ file_info'.exists
               /\ \A k \in 1..Len(info) :
                     LET j == LastIn(info, k)
                     IN  /\ NoMtime(last'.files, k) => info[k].epoch_time = 0 - 1
                         /\ \E i \in 1..Len(file_info'.rows) :
                               /\ file_info'.rows[i].id = info[k].id
                               /\ file_info'.rows[i].file_path = last'.files[j]
                               /\ file_info'.rows[i].epoch_time =
                                     IF NoMtime(last'.files, j) THEN 0 - 1
                                     ELSE mtime[last'.files[j]].time
      ]_vars

\* a batch of three files whose first file has no readable modification time
\* has stored three rows, the first with -1 and the last with a real time
C17_Witness ==
    /\ IsInfo /\ last.outcome = "finished" /\ last.reset_table
    /\ Len(last.files) = 3
    /\ NoMtime(last.files, 1)
    /\ Len(file_info.rows) = 3
    /\ file_info.rows[1].file_path = last.files[1]
    /\ file_info.rows[1].epoch_time = 0 - 1
    /\ file_info.rows[3].file_path = last.files[3]
    /\ file_info.rows[3].epoch_time > 0

(***************************************************************************)
(* Failures, transactions and connections                                  *)
(***************************************************************************)
\* C18: an ingestion call that fails is not reported as finished by its
\* caller in main.
C18_FailureReported ==
    ((IsIngest \/ IsInfo) /\ last.outcome = "error") => last.reported # "Finished"

\* the places of the journal of the call that has just returned
EventsAt(kinds) == {i \in 1..Len(last.journal) : last.journal[i] \in kinds}
Mutations == EventsAt({"drop", "create", "insert"})
Begins == EventsAt({"begin"})
Ends == EventsAt({"commit", "rollback"})

\* C19: a batch-mutating call makes all its changes, the drop and recreate of
\* tables included, inside one transaction that it begins once and ends once.
C19_OneTransaction ==
    ((IsIngest \/ IsInfo \/ IsTerms) /\ Mutations # {}) =>
        /\ Cardinality(Begins) = 1
        /\ Cardinality(Ends) = 1
        /\ \A m \in Mutations : \A b \in Begins : \A e \in Ends : b < m /\ m < e

\* C20: a top-level call that opened a connection has closed it when it
\* returns, and has left no transaction open.
C20_ConnectionClosed ==
    ((IsIngest \/ IsInfo \/ IsPrompt \/ IsTerms) /\ last.journal # <<>>) =>
        /\ EventsAt({"open"}) = {1}
        /\ EventsAt({"close"}) = {Len(last.journal)}
        /\ Cardinality(Begins) = Cardinality(Ends)

(***************************************************************************)
(* The query vector                                                        *)
(***************************************************************************)
RECURSIVE TotalSquares(_, _)
\* the sum of the squared counts of the terms of S in the map
TotalSquares(tokens, S) ==
    IF S = {} THEN 0
    ELSE LET k == CHOOSE x \in S : TRUE
         IN  tokens[k] * tokens[k] + TotalSquares(tokens, S \ {k})

\* C21: in processPrompt the weight of every filtered query token is its
\* frequency divided by the Euclidean norm of the whole query map, and the
\* filtered tokens are those of at most 16 letters with a frequency of 1 or more.
C21_QueryWeights ==
    (IsPrompt /\ last.prompt.ok) =>
        /\ {QueryTokens[i].token : i \in QueryIndex}
              = {k \in DOMAIN last.prompt.map :
                    /\ contains_only_letters(k)
                    /\ Len(k) <= 16
                    /\ last.prompt.map[k] >= 1}
        /\ \A i \in QueryIndex :
              /\ QueryTokens[i].frequency = last.prompt.map[QueryTokens[i].token]
              /\ QueryTokens[i].weight.num = QueryTokens[i].frequency
              /\ QueryTokens[i].weight.den.sq
                    = TotalSquares(last.prompt.map, DOMAIN last.prompt.map)

(***************************************************************************)
(* Frames                                                                  *)
(***************************************************************************)
\* C22: each operation changes only its own tables, processPrompt changes no
\* table, and no operation writes pdf_chunks.
C22_OwnTablesOnly ==
    [][ /\ last'.op = "computeRelationalDistance" =>
              file_info' = file_info /\ global_terms' = global_terms
        /\ last'.op = "computeResourceData" =>
              /\ file_token' = file_token
              /\ relation_distance' = relation_distance
              /\ global_terms' = global_terms
        /\ last'.op = "createGlobalTermsTable" =>
              /\ file_token' = file_token
              /\ relation_distance' = relation_distance
              /\ file_info' = file_info
        /\ last'.op = "processPrompt" =>
              /\ file_token' = file_token
              /\ relation_distance' = relation_distance
              /\ file_info' = file_info
              /\ global_terms' = global_terms
        /\ pdf_chunks' = pdf_chunks
      ]_vars

\* a rebuild of the global terms has run on a database file whose three
\* per-document tables hold rows
C22_Witness ==
    /\ IsTerms /\ last.outcome = "finished"
    /\ global_terms.rows # {}
    /\ file_token.rows # {}
    /\ relation_distance.rows # {}
    /\ file_info.rows # <<>>

(***************************************************************************)
(* Repeated metadata runs                                                  *)
(***************************************************************************)
\* C23: after any sequence of computeResourceData runs, file_info holds at
\* most one row per file path.
C23_OneRowPerPath ==
    \A i, j \in 1..Len(file_info.rows) :
        file_info.rows[i].file_path = file_info.rows[j].file_path => i = j

(***************************************************************************)
(* Agreement of the two vector tables                                      *)
(***************************************************************************)
RECURSIVE FrequencySum(_)
\* the sum of the frequencies of a set of token-weight rows
FrequencySum(rows) ==
    IF rows = {} THEN 0
    ELSE LET r == CHOOSE x \in rows : TRUE
         IN  r.frequency + FrequencySum(rows \ {r})

RECURSIVE SquaredFrequencySum(_)
\* the sum of the squared frequencies of a set of token-weight rows, as a
\* 64-bit number
SquaredFrequencySum(rows) ==
    IF rows = {} THEN ZeroU(8)
    ELSE LET r == CHOOSE x \in rows : TRUE
         IN  AddU(TimesNat(TimesNat(OneU(8), r.frequency, 8), r.frequency, 8),
                  SquaredFrequencySum(rows \ {r}), 8)

\* C24: after a finished computeRelationalDistance run with reset, for every
\* document unique_tokens is the number of its token-weight rows,
\* total_tokens the sum of their frequencies, relational_distance squared the
\* sum of their squared frequencies, and every stored weight w is a number
\* with 0 < w <= 1.
C24_TablesAgree ==
    (IsIngest /\ last.outcome = "finished" /\ last.reset_table) =>
        /\ \A w \in relation_distance.rows :
              /\ \E d \in file_token.rows : d.file_name = w.file_name
              /\ w.relational_distance.den.sq > 0
              /\ w.relational_distance.num > 0
              /\ w.relational_distance.num * w.relational_distance.num
                    <= w.relational_distance.den.sq
        /\ \A d \in file_token.rows :
              /\ d.unique_tokens = Cardinality(WeightRowsOf(d.file_name))
              /\ d.total_tokens = FrequencySum(WeightRowsOf(d.file_name))
              /\ d.relational_distance.sq >= 0
              /\ TimesNat(OneU(8), d.relational_distance.sq, 8)
                    = SquaredFrequencySum(WeightRowsOf(d.file_name))

(***************************************************************************)
(* Completeness of the ranked list                                         *)
(***************************************************************************)
\* the places of the ranked list that hold the document of a file_info row
ListedAt(row) ==
    {k \in 1..Len(last.RESULT) :
        last.RESULT[k].id = row.id /\ last.RESULT[k].file_name = row.file_name}

\* C25: the list processPrompt builds holds every file_info row exactly once,
\* documents without a common token and an empty filtered query included.
C25_EveryDocumentListed ==
    (IsPrompt /\ last.outcome = "finished") =>
        /\ \A i \in 1..Len(file_info.rows) :
              Cardinality(ListedAt(file_info.rows[i])) = 1
        /\ \A k \in 1..Len(last.RESULT) :
              \E i \in 1..Len(file_info.rows) : k \in ListedAt(file_info.rows[i])

\* a ranking of two documents, one with a score and one that shares no token
\* with the query
C25_Witness ==
    /\ IsPrompt /\ last.outcome = "finished"
    /\ Len(file_info.rows) = 2
    /\ QueryTokens # <<>>
    /\ \E i, j \in 1..Len(last.RESULT) :
          /\ last.RESULT[i].total_distance = ZeroSum
          /\ last.RESULT[j].total_distance # ZeroSum

(***************************************************************************)
(* Independence of the operations of one process                           *)
(***************************************************************************)
\* C26: whatever happened to the operations that ran before it in the same
\* process, a call of computeResourceData completes, and no call leaves the
\* database file locked.
C26_LaterCallsComplete ==
    /\ IsInfo => last.outcome = "finished"
    /\ lock = "free"

====
